---- MODULE Spec2Model ----
(***************************************************************************)
(* Model of app.py: the stock reconciliation between a Google Sheets       *)
(* catalog (GoogleSheetsHandler) and the supplier's web site               *)
(* (ACDCStockScraper), driven by sync_stock.                               *)
(*                                                                         *)
(* Text is modelled as a sequence of one-character strings, so that the    *)
(* similarity ratio of difflib.SequenceMatcher is computed rather than     *)
(* assumed.  A ratio is the exact fraction [num, den] of the float that    *)
(* Python computes (2.0 * matches / length); fractions are compared by     *)
(* cross-multiplication.                                                   *)
(***************************************************************************)
EXTENDS Integers, Sequences, FiniteSets, TLC

\* ------------------------------------------------------------------ bounds

\* Longest candidate list the search page returns in the matcher harness.
MaxCands == 2

\* ------------------------------------------------------------------- text

\* str.lower() on one character.
LowerChar(c) == IF c = "A" THEN "a" ELSE IF c = "B" THEN "b" ELSE c

\* str.lower()
Lower(s) == [i \in 1..Len(s) |-> LowerChar(s[i])]

\* The text of the labels and titles of the model.
Labels ==
    { <<>>, <<"a">>, <<"A">>, <<"b">>, <<"a", "b">>, <<"a", "b", "b">>,
      <<"b", "a", "b">> }

\* difflib.SequenceMatcher.find_longest_match over the whole of a and b: the
\* matching blocks <<i, j, k>> with a[i..i+k-1] = b[j..j+k-1].
Blocks(a, b) ==
    { x \in (1..Len(a)) \X (1..Len(b)) \X (1..Len(a)) :
        /\ x[1] + x[3] - 1 <= Len(a)
        /\ x[2] + x[3] - 1 <= Len(b)
        /\ SubSeq(a, x[1], x[1] + x[3] - 1) = SubSeq(b, x[2], x[2] + x[3] - 1) }

\* The longest block; of these the one that starts earliest in a, and of those
\* the one that starts earliest in b.
LongestMatch(a, b) ==
    CHOOSE x \in Blocks(a, b) :
        \A y \in Blocks(a, b) :
            \/ y[3] < x[3]
            \/ /\ y[3] = x[3]
               /\ \/ x[1] < y[1]
                  \/ x[1] = y[1] /\ x[2] <= y[2]

\* The number of matched characters: the sum of the sizes of
\* SequenceMatcher.get_matching_blocks (longest block, then the same to its
\* left and to its right).
RECURSIVE Matches(_, _)
Matches(a, b) ==
    IF Blocks(a, b) = {} THEN 0
    ELSE LET x == LongestMatch(a, b)
         IN  x[3]
             + Matches(SubSeq(a, 1, x[1] - 1), SubSeq(b, 1, x[2] - 1))
             + Matches(SubSeq(a, x[1] + x[3], Len(a)),
                       SubSeq(b, x[2] + x[3], Len(b)))

\* SequenceMatcher.ratio(): 2.0 * matches / length, and 1.0 when both are empty.
Ratio(a, b) ==
    IF Len(a) + Len(b) = 0 THEN [num |-> 1, den |-> 1]
    ELSE [num |-> 2 * Matches(a, b), den |-> Len(a) + Len(b)]

\* ACDCStockScraper.similarity_ratio
similarity_ratio(a, b) == Ratio(Lower(a), Lower(b))

\* Comparison of fractions with positive denominators.
Gt(r, s) == r.num * s.den > s.num * r.den
Ge(r, s) == r.num * s.den >= s.num * r.den

\* The integer 0 that best_ratio starts from.
ZeroRatio == [num |-> 0, den |-> 1]

\* MatchLoop with a later product of the same ratio replacing the best one.
RECURSIVE MatchLoopLastWins(_, _, _, _)
MatchLoopLastWins(search_title, products, threshold, n) ==
    IF n = 0 THEN [best_match |-> 0, best_ratio |-> ZeroRatio]
    ELSE LET before == MatchLoopLastWins(search_title, products, threshold, n - 1)
             ratio  == similarity_ratio(search_title, products[n])
         IN  IF Ge(ratio, before.best_ratio) /\ Ge(ratio, threshold)
             THEN [best_match |-> n, best_ratio |-> ratio]
             ELSE before

\* MatchLoop without the test of the threshold.
RECURSIVE MatchLoopNoThreshold(_, _, _, _)
MatchLoopNoThreshold(search_title, products, threshold, n) ==
    IF n = 0 THEN [best_match |-> 0, best_ratio |-> ZeroRatio]
    ELSE LET before == MatchLoopNoThreshold(search_title, products, threshold, n - 1)
             ratio  == similarity_ratio(search_title, products[n])
         IN  IF Gt(ratio, before.best_ratio)
             THEN [best_match |-> n, best_ratio |-> ratio]
             ELSE before

\* The loop of find_matching_product over the first n products: the pair
\* [best_match, best_ratio], best_match the index of the product (0: None).
RECURSIVE MatchLoop(_, _, _, _)
MatchLoop(search_title, products, threshold, n) ==
    IF n = 0 THEN [best_match |-> 0, best_ratio |-> ZeroRatio]
    ELSE LET before == MatchLoop(search_title, products, threshold, n - 1)
             ratio  == similarity_ratio(search_title, products[n])
         IN  IF Gt(ratio, before.best_ratio) /\ Ge(ratio, threshold)
             THEN [best_match |-> n, best_ratio |-> ratio]
             ELSE before

\* ACDCStockScraper.find_matching_product, given the product titles the search
\* page shows: the index of the returned product, 0 for None.
find_matching_product(search_title, products, threshold) ==
    MatchLoop(search_title, products, threshold, Len(products)).best_match

\* The default threshold, 0.8.
DefaultThreshold == [num |-> 4, den |-> 5]

\* ------------------------------------------------------------------ store

\* GoogleSheetsHandler.COLUMN_MAPPINGS: the 0-based index of the columns the
\* model keeps (A, B, I, P, Q, R, S, T, U, V). The cell texts of the model are
\* texts that the sheet stores as they are entered (USER_ENTERED).
COLUMN_MAPPINGS ==
    [handle |-> 0, title |-> 1, sku |-> 8, available |-> 15, on_hand |-> 16,
     acdc_stock |-> 17, stock_difference |-> 18, last_checked |-> 19,
     action_required |-> 20, notes |-> 21]

Fields == DOMAIN COLUMN_MAPPINGS

\* An empty cell: the title is text (a sequence), every other cell a string.
EmptyCell(f) == IF f = "title" THEN <<>> ELSE ""

\* The header row that create_header_row writes.
HeaderRow ==
    [handle |-> "Handle", title |-> <<"T", "i", "t", "l", "e">>, sku |-> "SKU",
     available |-> "Available", on_hand |-> "On hand",
     acdc_stock |-> "ACDC Stock", stock_difference |-> "Stock Difference",
     last_checked |-> "Last Checked", action_required |-> "Action Required",
     notes |-> "Notes"]

\* values().get returns a row without its trailing empty cells: the number of
\* cells of the returned list.
RowLen(row) ==
    LET filled == { COLUMN_MAPPINGS[f] : f \in { g \in Fields : row[g] # EmptyCell(g) } }
    IN  IF filled = {} THEN 0
        ELSE 1 + CHOOSE c \in filled : \A d \in filled : d <= c

\* The list values().get returns for a row, as a function of the 0-based
\* indices it has (an index outside its domain raises IndexError).
RowValues(row) ==
    [c \in { COLUMN_MAPPINGS[f] : f \in { g \in Fields : COLUMN_MAPPINGS[g] < RowLen(row) } }
        |-> LET f == CHOOSE g \in Fields : COLUMN_MAPPINGS[g] = c IN row[f]]

\* GoogleSheetsHandler.get_all_products: the rows of A2:V, or [] when the
\* read raises.
get_all_products(sh, get_ok) ==
    IF get_ok THEN [i \in 1..(Len(sh) - 1) |-> RowValues(sh[i + 1])] ELSE <<>>

\* dict.get(key, default)
DictGet(d, key, default) == IF key \in DOMAIN d THEN d[key] ELSE default

\* int(text): the texts int() accepts among those of the model are the
\* decimal numerals.
IsInt(text) == \E n \in 0..99 : ToString(n) = text
Int_(text) == CHOOSE n \in 0..99 : ToString(n) = text

\* The values of column I as values().get returns them: one list per row, empty
\* for an empty cell.
SkuColumn(sh) == [i \in 1..Len(sh) |-> IF sh[i].sku = "" THEN <<>> ELSE <<sh[i].sku>>]

\* The search for the row with the SKU: the first row whose cell equals it
\* (0: row_number is None).
FindRow(rows, sku) ==
    IF \E i \in 1..Len(rows) : rows[i] # <<>> /\ rows[i][1] = sku
    THEN CHOOSE i \in 1..Len(rows) :
            /\ rows[i] # <<>> /\ rows[i][1] = sku
            /\ \A j \in 1..(i - 1) : ~(rows[j] # <<>> /\ rows[j][1] = sku)
    ELSE 0

\* The row that the append path builds.
NewRow(sku, shopify_data, acdc_stock, now) ==
    LET shopify_stock == DictGet(shopify_data, "on_hand", "0")
        differs == Int_(shopify_stock) # acdc_stock
    IN  [handle |-> DictGet(shopify_data, "handle", ""),
         title |-> DictGet(shopify_data, "title", <<>>),
         sku |-> sku,
         available |-> DictGet(shopify_data, "available", "0"),
         on_hand |-> shopify_stock,
         acdc_stock |-> ToString(acdc_stock),
         stock_difference |-> IF differs THEN "Yes" ELSE "No",
         last_checked |-> now,
         action_required |-> IF differs THEN "Check stock levels" ELSE "",
         notes |-> ""]

\* UpdatedRow asking for a check of every row it writes.
UpdatedRowAlwaysAction(row, shopify_data, acdc_stock, now) ==
    LET shopify_stock == DictGet(shopify_data, "on_hand", "0")
        differs == Int_(shopify_stock) # acdc_stock
    IN  [row EXCEPT !.acdc_stock = ToString(acdc_stock),
                    !.stock_difference = IF differs THEN "Yes" ELSE "No",
                    !.last_checked = now,
                    !.action_required = "Check stock levels",
                    !.notes = ""]

\* The row after the update path has written R..V of it.
UpdatedRow(row, shopify_data, acdc_stock, now) ==
    LET shopify_stock == DictGet(shopify_data, "on_hand", "0")
        differs == Int_(shopify_stock) # acdc_stock
    IN  [row EXCEPT !.acdc_stock = ToString(acdc_stock),
                    !.stock_difference = IF differs THEN "Yes" ELSE "No",
                    !.last_checked = now,
                    !.action_required = IF differs THEN "Check stock levels" ELSE "",
                    !.notes = ""]

\* update_stock_levels with a write that reaches the sheet although the call
\* of the service raises.
update_stock_levels_WriteThenRaise(sh, sku, shopify_data, acdc_stock, env) ==
    LET row_number == FindRow(SkuColumn(sh), sku)
        shopify_stock == DictGet(shopify_data, "on_hand", "0")
    IN  IF ~env.get_ok \/ ~IsInt(shopify_stock)
        THEN [ok |-> FALSE, sheet |-> sh]
        ELSE IF row_number = 0
        THEN [ok |-> env.write_ok,
              sheet |-> Append(sh, NewRow(sku, shopify_data, acdc_stock, env.now))]
        ELSE [ok |-> env.write_ok,
              sheet |-> [sh EXCEPT ![row_number] =
                            UpdatedRow(sh[row_number], shopify_data, acdc_stock, env.now)]]

\* GoogleSheetsHandler.update_stock_levels: the value returned and the sheet
\* afterwards. env: whether the read and the write of the sheet succeed, and
\* the text of datetime.now().
update_stock_levels(sh, sku, shopify_data, acdc_stock, env) ==
    LET row_number == FindRow(SkuColumn(sh), sku)
        shopify_stock == DictGet(shopify_data, "on_hand", "0")
    IN  IF ~env.get_ok \/ ~IsInt(shopify_stock) \/ ~env.write_ok
        THEN [ok |-> FALSE, sheet |-> sh]
        ELSE IF row_number = 0
        THEN [ok |-> TRUE,
              sheet |-> Append(sh, NewRow(sku, shopify_data, acdc_stock, env.now))]
        ELSE [ok |-> TRUE,
              sheet |-> [sh EXCEPT ![row_number] =
                            UpdatedRow(sh[row_number], shopify_data, acdc_stock, env.now)]]

\* What the sheet service can do on one call.
Envs == [get_ok : BOOLEAN, write_ok : BOOLEAN, now : {"t1", "t2"}]

\* ------------------------------------------------------------------ state

VARIABLES
    sheet,        \* the rows of the sheet, the header row first
    running,      \* the scheduler's "run in progress" flag
    active,       \* the number of sync_stock calls in progress
    pc,           \* where sync_stock is
    products,     \* sync_stock: the rows get_all_products returned
    idx,          \* sync_stock: the position of product in products
    locals,       \* sync_stock: title, sku, current_stock, acdc_stock once bound
    scraper,      \* sync_stock: "none", "open" or "closed"
    page,         \* the product titles on the page the driver has loaded
    log,          \* the records logged by the run, as <<entry, event>>
    result,       \* how the last sync_stock ended: "none", "returned", "raised"
    trigger,      \* the answer to the last trigger
    started,      \* the number of runs started
    m,            \* the matcher harness: one call of find_matching_product
    u             \* the upsert harness: two calls of update_stock_levels

runState == <<running, active, pc, products, idx, locals, scraper, page, log,
              result, started>>
runVars == <<running, active, pc, products, idx, locals, scraper, page, log,
             result, trigger, started>>
vars == <<sheet, running, active, pc, products, idx, locals, scraper, page, log,
          result, trigger, started, m, u>>

\* The empty dict.
NoLocals == [k \in {} |-> 0]

\* Before any trigger: no run, no flag.
RunIdle ==
    /\ running = FALSE
    /\ active = 0
    /\ pc = "idle"
    /\ products = <<>>
    /\ idx = 0
    /\ locals = NoLocals
    /\ scraper = "none"
    /\ page = <<>>
    /\ log = <<>>
    /\ result = "none"
    /\ trigger = "none"
    /\ started = 0

\* ---------------------------------------------------------- the sheets

\* Longest catalog (rows below the header) of the model.
MaxRows == 2

\* A row with the stock columns R..U as given and the rest as in the arguments.
Row(handle, title, sku, on_hand, notes) ==
    [handle |-> handle, title |-> title, sku |-> sku,
     available |-> IF on_hand = "" THEN "" ELSE "0", on_hand |-> on_hand,
     acdc_stock |-> "", stock_difference |-> "", last_checked |-> "",
     action_required |-> "", notes |-> notes]

\* The rows a catalog is made of: a complete row with a note, a row with a
\* stock that is no number, a row with no SKU, a row without a stock that
\* shares a SKU, and a row of the handle alone.
RowPool ==
    { Row("h", <<"a", "b">>, "A1", "5", "n"),
      Row("h", <<"a", "b">>, "B2", "x", ""),
      Row("h", <<"a", "b", "b">>, "", "6", ""),
      Row("h", <<"a", "b">>, "A1", "", ""),
      Row("h", <<>>, "", "", "") }

\* The sheets of the model: the header row and at most MaxRows rows, the last
\* of them not empty (the sheet ends at its last row with a value).
Sheets ==
    { <<HeaderRow>> \o rows :
        rows \in { r \in UNION { [1..n -> RowPool] : n \in 0..MaxRows } :
                     Len(r) = 0 \/ RowLen(r[Len(r)]) > 0 } }

\* ------------------------------------------------------- matcher harness

\* The thresholds of the harness: 0, 1/2, 0.8 and 1.
Thresholds ==
    { [num |-> 0, den |-> 1], [num |-> 1, den |-> 2], DefaultThreshold,
      [num |-> 1, den |-> 1] }

CandidateLists == UNION { [1..n -> Labels] : n \in 0..MaxCands }

MIdle == m = [pc |-> "off"]
UIdle == u = [pc |-> "off"]

MInit ==
    /\ m \in [pc : {"call"}, search_title : Labels, products : CandidateLists,
              threshold : Thresholds, best_match : {0}]
    /\ sheet = <<HeaderRow>>
    /\ RunIdle
    /\ UIdle

\* One call of find_matching_product.
MCall ==
    /\ m.pc = "call"
    /\ m' = [m EXCEPT !.pc = "done",
                      !.best_match = find_matching_product(m.search_title, m.products,
                                                           m.threshold)]
    /\ UNCHANGED <<sheet, runVars, u>>

MNext == MCall

SpecMatch == MInit /\ [][MNext]_vars

\* -------------------------------------------------------- upsert harness

\* The shopify_data of the harness: as sync_stock builds it, and with keys
\* missing.
ShopifyDatas ==
    { [handle |-> "h", title |-> <<"a", "b">>, on_hand |-> "5"],
      [handle |-> "g", title |-> <<"b">>, on_hand |-> "x"],
      [handle |-> "g", title |-> <<"b">>, on_hand |-> "0"],
      [title |-> <<"a">>] }

UInit ==
    /\ sheet \in Sheets
    /\ u \in [pc : {"call"}, sku : {"", "A1", "B2", "C3"}, shopify_data : ShopifyDatas,
              acdc_stock : {0, 5}, calls : {0}, before : {sheet}, first : {sheet},
              ok : {<<>>}, env : {<<>>}]
    /\ RunIdle
    /\ MIdle

\* One call of update_stock_levels, and a second one with the same arguments.
\* u.env records how the sheet service behaved in each call.
UCall ==
    /\ u.pc = "call"
    /\ \E env \in Envs :
        LET r == update_stock_levels(sheet, u.sku, u.shopify_data, u.acdc_stock, env)
        IN  /\ sheet' = r.sheet
            /\ u' = [u EXCEPT !.calls = @ + 1,
                              !.pc = IF u.calls = 1 THEN "done" ELSE "call",
                              !.first = IF u.calls = 0 THEN r.sheet ELSE @,
                              !.ok = Append(@, r.ok),
                              !.env = Append(@, env)]
    /\ UNCHANGED <<runVars, m>>

UNext == UCall

SpecUpsert == UInit /\ [][UNext]_vars

\* ------------------------------------------------------ matcher: claims

\* The ratio of each candidate of the harness's call.
MRatios == [n \in 1..Len(m.products) |-> similarity_ratio(m.search_title, m.products[n])]

\* The first candidate, in input order, whose ratio no candidate exceeds.
MBest ==
    CHOOSE n \in 1..Len(m.products) :
        /\ \A k \in 1..Len(m.products) : Ge(MRatios[n], MRatios[k])
        /\ \A k \in 1..(n - 1) : Gt(MRatios[n], MRatios[k])

OneRatio == [num |-> 1, den |-> 1]

\* C10 as stated: for every query, candidate list and threshold in [0,1] the
\* matcher returns the first candidate of the highest ratio whenever that
\* ratio is >= threshold, returns None exactly when there is no candidate or
\* the highest ratio is < threshold, and a returned match has its ratio in
\* [threshold, 1].
C10_AsStated ==
    m.pc = "done" =>
        /\ (Len(m.products) > 0 /\ Ge(MRatios[MBest], m.threshold))
              => m.best_match = MBest
        /\ m.best_match = 0
              <=> (Len(m.products) = 0 \/ ~Ge(MRatios[MBest], m.threshold))
        /\ m.best_match # 0
              => /\ Ge(MRatios[m.best_match], m.threshold)
                 /\ Ge(OneRatio, MRatios[m.best_match])

\* C10 amended: the matcher returns the first candidate of the highest ratio
\* whenever that ratio is >= threshold and greater than 0, and returns None
\* exactly when there is no candidate, the highest ratio is < threshold or the
\* highest ratio is 0; a returned match has its ratio in [threshold, 1].
C10_Matcher ==
    m.pc = "done" =>
        /\ (/\ Len(m.products) > 0
            /\ Ge(MRatios[MBest], m.threshold)
            /\ Gt(MRatios[MBest], ZeroRatio))
              => m.best_match = MBest
        /\ m.best_match = 0
              <=> \/ Len(m.products) = 0
                  \/ ~Ge(MRatios[MBest], m.threshold)
                  \/ ~Gt(MRatios[MBest], ZeroRatio)
        /\ m.best_match # 0
              => /\ Ge(MRatios[m.best_match], m.threshold)
                 /\ Ge(OneRatio, MRatios[m.best_match])

\* C10 witness: two different candidates tie at a ratio equal to the threshold
\* 0.8, and the first is returned.
C10_Witness ==
    /\ m.pc = "done"
    /\ Len(m.products) = 2
    /\ m.products[1] # m.products[2]
    /\ m.threshold = DefaultThreshold
    /\ MRatios[1] = DefaultThreshold
    /\ MRatios[2] = DefaultThreshold
    /\ m.best_match = 1

\* ------------------------------------------------------- upsert: claims

\* A sheet without its timestamps.
Observable(sh) == [i \in 1..Len(sh) |-> [sh[i] EXCEPT !.last_checked = ""]]

\* The number of rows holding a SKU.
RowsWithSku(sh, sku) == Cardinality({ i \in 1..Len(sh) : sh[i].sku = sku })

\* C5 as stated: two calls of update_stock_levels with the same arguments that
\* both return True leave the sheet as the first call left it, apart from the
\* timestamp, with as many rows holding the SKU.
C5_Idempotent ==
    (u.pc = "done" /\ u.ok = <<TRUE, TRUE>>) =>
        /\ Observable(sheet) = Observable(u.first)
        /\ RowsWithSku(sheet, u.sku) = RowsWithSku(u.first, u.sku)

\* The fields an upsert of an existing row may change according to C6.
StockFields == {"acdc_stock", "stock_difference", "last_checked", "action_required"}

\* C6 as stated, for a SKU that is not empty: a call that returns True either
\* changes only the stock fields of the first row with the SKU, leaving the
\* other fields of the row and the other rows as they were, or, when no row
\* has the SKU, appends one row with the SKU and changes no other row.
C6_Frame ==
    (u.pc # "off" /\ u.calls = 1 /\ u.ok = <<TRUE>> /\ u.sku # "") =>
        IF \E i \in 1..Len(u.before) : u.before[i].sku = u.sku
        THEN LET r == CHOOSE i \in 1..Len(u.before) :
                        /\ u.before[i].sku = u.sku
                        /\ \A j \in 1..(i - 1) : u.before[j].sku # u.sku
             IN  /\ Len(sheet) = Len(u.before)
                 /\ \A i \in 1..Len(sheet) : i # r => sheet[i] = u.before[i]
                 /\ \A f \in Fields \ StockFields : sheet[r][f] = u.before[r][f]
        ELSE /\ Len(sheet) = Len(u.before) + 1
             /\ SubSeq(sheet, 1, Len(u.before)) = u.before
             /\ sheet[Len(sheet)].sku = u.sku

\* ------------------------------------------------------------- the run

\* The number of runs the model starts.
MaxRuns == 2

\* The search pages of the supplier's site, as the product titles they show:
\* no product, a product below the threshold for every title of RowPool, and
\* that product followed by one that matches.
SitePages == { <<>>, << <<"b">> >>, << <<"b">>, <<"a", "b">> >> }

\* Python's None among the quantity texts of the stock table.
None == "None"

\* The stock_data a product page can give: the quantity text of each branch,
\* None when the table has no row for the branch.
StockDatas ==
    { [edenvale |-> "3", germiston |-> "3"],
      [edenvale |-> "3", germiston |-> "x"],
      [edenvale |-> "3", germiston |-> None],
      [edenvale |-> None, germiston |-> None] }

\* locals[name] = value
Bind(l, name, value) ==
    [k \in DOMAIN l \cup {name} |-> IF k = name THEN value ELSE l[k]]

\* The scheduler starts a run: the flag is set and sync_stock is called. The
\* model starts MaxRuns runs, each over a catalog of at most MaxRows rows.
StartRun ==
    /\ started < MaxRuns
    /\ Len(sheet) <= MaxRows + 1
    /\ running' = TRUE
    /\ active' = active + 1
    /\ started' = started + 1
    /\ pc' = "init"
    /\ products' = <<>>
    /\ idx' = 0
    /\ locals' = NoLocals
    /\ scraper' = "none"
    /\ page' = <<>>
    /\ log' = <<>>
    /\ result' = result

\* The scheduled trigger: a run is started unless the flag is set.
ScheduledTrigger ==
    /\ ~running
    /\ StartRun
    /\ UNCHANGED <<sheet, trigger, m, u>>

\* ManualTrigger without the test of the flag.
ManualTriggerUnguarded ==
    /\ trigger' = "started"
    /\ StartRun
    /\ UNCHANGED <<sheet, m, u>>

\* The manual trigger: rejected while the flag is set, else a run is started.
ManualTrigger ==
    /\ IF running
       THEN /\ trigger' = "already in progress"
            /\ UNCHANGED runState
       ELSE /\ trigger' = "started"
            /\ StartRun
    /\ UNCHANGED <<sheet, m, u>>

\* sync_stock, lines 347-353: the handler and the scraper are built; either
\* constructor may raise, and scraper is bound only after both succeeded.
InitHandlers ==
    /\ pc = "init"
    /\ \E built \in BOOLEAN :
        IF built
        THEN /\ scraper' = "open"
             /\ pc' = "fetch"
        ELSE /\ scraper' = scraper
             /\ pc' = "outer_except"
    /\ UNCHANGED <<sheet, running, active, products, idx, locals, page, log, result,
                   trigger, started, m, u>>

\* The loop moves to the product at position n, or ends.
LoopTo(n) ==
    /\ idx' = n
    /\ pc' = IF n <= Len(products) THEN "entry" ELSE "finally"

\* sync_stock, lines 356-357: the catalog is read; a read that fails is logged
\* by get_all_products and gives the empty list.
Fetch ==
    /\ pc = "fetch"
    /\ \E get_ok \in BOOLEAN :
        /\ products' = get_all_products(sheet, get_ok)
        /\ log' = IF get_ok THEN log ELSE Append(log, <<0, "Failed to get products">>)
        /\ idx' = 1
        /\ pc' = IF get_ok /\ Len(sheet) > 1 THEN "entry" ELSE "finally"
    /\ UNCHANGED <<sheet, running, active, locals, scraper, page, result, trigger,
                   started, m, u>>

\* The names that lines 361-363 bind before one of them raises IndexError.
EntryLocals(l, product) ==
    IF 1 \notin DOMAIN product THEN l
    ELSE IF 8 \notin DOMAIN product THEN Bind(l, "title", product[1])
    ELSE IF 16 \notin DOMAIN product
         THEN Bind(Bind(l, "title", product[1]), "sku", product[8])
    ELSE Bind(Bind(Bind(l, "title", product[1]), "sku", product[8]),
              "current_stock", product[16])

\* sync_stock, lines 361-365: title, sku and current_stock are taken from the
\* row; a row too short raises IndexError.
Entry ==
    /\ pc = "entry"
    /\ locals' = EntryLocals(locals, products[idx])
    /\ pc' = IF 16 \in DOMAIN products[idx] THEN "search" ELSE "except"
    /\ UNCHANGED <<sheet, running, active, products, idx, scraper, page, log, result,
                   trigger, started, m, u>>

\* find_matching_product, lines 277-282: the driver loads the search page, or
\* raises when the site cannot be reached.
Search ==
    /\ pc = "search"
    /\ \/ /\ \E p \in SitePages : page' = p
          /\ pc' = "match"
       \/ /\ page' = page
          /\ pc' = "except"
    /\ UNCHANGED <<sheet, running, active, products, idx, locals, scraper, log, result,
                   trigger, started, m, u>>

\* find_matching_product, lines 284-293, get_stock_levels, lines 297-301, and
\* sync_stock, lines 387-388: the best product is looked for; when there is
\* none this is logged, None is returned and the loop goes on. The search page
\* is not read again.
Match ==
    /\ pc = "match"
    /\ IF find_matching_product(locals.title, page, DefaultThreshold) = 0
       THEN /\ log' = log \o << <<idx, "No matching product found">>,
                                <<idx, "No stock data found">> >>
            /\ LoopTo(idx + 1)
       ELSE /\ log' = log
            /\ pc' = "read"
            /\ idx' = idx
    /\ page' = <<>>
    /\ UNCHANGED <<sheet, running, active, products, locals, scraper, result,
                   trigger, started, m, u>>

\* get_stock_levels, lines 303-335: the product page is loaded (an error there
\* is not caught in get_stock_levels), the stock table is awaited (a timeout or
\* a missing element is caught, logged, and None is returned), and the
\* quantity texts of the two branches are read.
Read ==
    /\ pc = "read"
    /\ \/ /\ pc' = "except"
          /\ UNCHANGED <<idx, locals, log>>
       \/ /\ log' = log \o << <<idx, "Error getting stock levels">>,
                              <<idx, "No stock data found">> >>
          /\ LoopTo(idx + 1)
          /\ UNCHANGED locals
       \/ /\ \E stock_data \in StockDatas :
                locals' = Bind(locals, "acdc_stock", stock_data)
          /\ pc' = "write"
          /\ UNCHANGED <<idx, log>>
    /\ UNCHANGED <<sheet, running, active, products, scraper, page, result, trigger,
                   started, m, u>>

\* The shopify_data that sync_stock passes, lines 374-378.
ShopifyData(product, title, current_stock) ==
    [handle |-> product[0], title |-> title, on_hand |-> current_stock]

\* What the sheet service can do on one call of a run (one reading of the
\* clock).
RunEnvs == { env \in Envs : env.now = "t1" }

\* del locals[name]
Unbind(l, name) == [k \in DOMAIN l \ {name} |-> l[k]]

\* sync_stock, lines 369-386: the two quantities are added (int() raises on
\* None and on a text that is no number), update_stock_levels is called, its
\* result is dropped and the update is logged. acdc_stock is bound anew before
\* it is read again, and is not kept.
Write ==
    /\ pc = "write"
    /\ locals' = Unbind(locals, "acdc_stock")
    /\ LET e == locals.acdc_stock.edenvale
           g == locals.acdc_stock.germiston
       IN  IF ~IsInt(e) \/ ~IsInt(g)
           THEN /\ pc' = "except"
                /\ UNCHANGED <<sheet, idx, log>>
           ELSE \E env \in RunEnvs :
                  LET r == update_stock_levels(
                               sheet, locals.sku,
                               ShopifyData(products[idx], locals.title,
                                           locals.current_stock),
                               Int_(e) + Int_(g), env)
                  IN  /\ sheet' = r.sheet
                      /\ log' = log
                                \o (IF r.ok THEN <<>>
                                    ELSE << <<idx, "Failed to update stock levels">> >>)
                                \o << <<idx, "Updated sheet">> >>
                      /\ LoopTo(idx + 1)
    /\ UNCHANGED <<running, active, products, scraper, page, result, trigger,
                   started, m, u>>

\* sync_stock, lines 389-391: the entry's error is logged with title; when no
\* row has bound title yet, the handler itself raises.
Except ==
    /\ pc = "except"
    /\ IF "title" \in DOMAIN locals
       THEN /\ log' = Append(log, <<idx, "Error processing product">>)
            /\ LoopTo(idx + 1)
       ELSE /\ pc' = "outer_except"
            /\ UNCHANGED <<idx, log>>
    /\ UNCHANGED <<sheet, running, active, products, locals, scraper, page, result,
                   trigger, started, m, u>>

\* sync_stock, lines 393-395: the failure is logged and raised again.
OuterExcept ==
    /\ pc = "outer_except"
    /\ log' = Append(log, <<idx, "Sync failed">>)
    /\ pc' = "finally_raise"
    /\ UNCHANGED <<sheet, running, active, products, idx, locals, scraper, page,
                   result, trigger, started, m, u>>

\* Finally with the scraper closed at the end of the try block only: a run
\* that raises leaves it open.
FinallyNoCloseOnRaise ==
    /\ pc \in {"finally", "finally_raise"}
    /\ scraper' = IF scraper = "open" /\ pc = "finally" THEN "closed" ELSE scraper
    /\ result' = IF pc = "finally_raise" THEN "raised" ELSE "returned"
    /\ pc' = "exit"
    /\ UNCHANGED <<sheet, running, active, products, idx, locals, page, log, trigger,
                   started, m, u>>

\* sync_stock, lines 396-398: the scraper, if built, is closed; sync_stock
\* returns, or raises what it caught.
Finally ==
    /\ pc \in {"finally", "finally_raise"}
    /\ scraper' = IF scraper = "open" THEN "closed" ELSE scraper
    /\ result' = IF pc = "finally_raise" THEN "raised" ELSE "returned"
    /\ pc' = "exit"
    /\ UNCHANGED <<sheet, running, active, products, idx, locals, page, log, trigger,
                   started, m, u>>

\* Release with a rejected trigger kept and served when the run ends.
ReleaseAndRunQueued ==
    /\ pc = "exit"
    /\ products' = <<>>
    /\ idx' = 0
    /\ locals' = NoLocals
    /\ IF trigger = "already in progress" /\ started < MaxRuns
       THEN /\ pc' = "init"
            /\ started' = started + 1
            /\ scraper' = "none"
            /\ log' = <<>>
            /\ UNCHANGED <<running, active>>
       ELSE /\ pc' = "idle"
            /\ running' = FALSE
            /\ active' = active - 1
            /\ UNCHANGED <<started, scraper, log>>
    /\ UNCHANGED <<sheet, page, result, trigger, m, u>>

\* Release with the flag cleared only after sync_stock returned.
ReleaseOnReturnOnly ==
    /\ pc = "exit"
    /\ running' = (result = "raised")
    /\ active' = active - 1
    /\ pc' = "idle"
    /\ products' = <<>>
    /\ idx' = 0
    /\ locals' = NoLocals
    /\ UNCHANGED <<sheet, scraper, page, log, result, trigger, started, m, u>>

\* The scheduler, after sync_stock has returned or raised: the flag is cleared.
\* The frame of sync_stock is gone.
Release ==
    /\ pc = "exit"
    /\ running' = FALSE
    /\ active' = active - 1
    /\ pc' = "idle"
    /\ products' = <<>>
    /\ idx' = 0
    /\ locals' = NoLocals
    /\ UNCHANGED <<sheet, scraper, page, log, result, trigger, started, m, u>>

Init ==
    /\ sheet \in Sheets
    /\ RunIdle
    /\ MIdle
    /\ UIdle

Next ==
    \/ ScheduledTrigger
    \/ ManualTrigger
    \/ InitHandlers
    \/ Fetch
    \/ Entry
    \/ Search
    \/ Match
    \/ Read
    \/ Write
    \/ Except
    \/ OuterExcept
    \/ Finally
    \/ Release

Spec == Init /\ [][Next]_vars

\* --------------------------------------------------------- run: claims

\* Whether the run has logged the event for the entry.
Logged(entry, event) == \E k \in 1..Len(log) : log[k] = <<entry, event>>

\* C1 as stated: a run whose handler and scraper were built ends with every
\* product of the catalog processed and without raising, whatever went wrong
\* with an entry.
C1_NoAbort ==
    (pc = "exit" /\ scraper # "none") =>
        /\ result = "returned"
        /\ idx = Len(products) + 1

\* C2: at most one sync_stock is in progress at any time, the flag is set
\* exactly while one is, and no run starts in a step taken while the flag is
\* set.
C2_OneRun ==
    /\ [](active <= 1 /\ (active = 1 <=> running) /\ (pc # "idle" <=> running))
    /\ [][running => started' = started]_vars

\* C2 witness: a run is in the middle of an entry, after a manual trigger has
\* been rejected.
C2_Witness ==
    /\ running
    /\ active = 1
    /\ pc = "write"
    /\ trigger = "already in progress"

\* C3: a manual trigger answered while the flag is set is answered "already in
\* progress" and changes nothing else; a run starts only in a step taken while
\* the flag is clear, and the step that ends a run starts none.
C3_Rejected ==
    /\ [][(running /\ trigger' # trigger) =>
            (trigger' = "already in progress" /\ UNCHANGED <<sheet, runState>>)]_vars
    /\ [][started' # started => (~running /\ started' = started + 1)]_vars
    /\ [][(running /\ ~running') => (pc' = "idle" /\ active' = 0)]_vars

\* C3 witness: the only run has ended after a manual trigger was rejected, and
\* no other run was started.
C3_Witness ==
    /\ trigger = "already in progress"
    /\ pc = "idle"
    /\ ~running
    /\ started = 1
    /\ result # "none"

\* C4: whenever no sync_stock is in progress the flag is clear, however the
\* last one ended; the step that leaves sync_stock clears it; and a manual
\* trigger answered after a run has ended is answered "started".
C4_FlagCleared ==
    /\ [](pc = "idle" => (~running /\ active = 0))
    /\ [][(pc = "exit" /\ pc' # "exit") => (~running' /\ pc' = "idle")]_vars
    /\ [][(pc = "idle" /\ result # "none" /\ (trigger' # trigger \/ started' # started))
            => (running' /\ pc' = "init" /\ started' = started + 1)]_vars

\* C4 witness: a run has raised, and the manual trigger after it was accepted.
C4_Witness ==
    /\ result = "raised"
    /\ started = 2
    /\ trigger = "started"
    /\ running
    /\ pc = "init"

\* No product of the page reaches the default threshold for the title.
NoCandidateReaches ==
    \A n \in 1..Len(page) :
        ~Ge(similarity_ratio(locals.title, page[n]), DefaultThreshold)

\* C7: when the page has no product, or none that reaches the threshold, the
\* entry's step leaves the sheet as it is, logs the entry as unmatched and as
\* without stock data, never as updated, and goes on to the next entry.
C7_NoMatch ==
    [][(pc = "match" /\ pc' # "match" /\ NoCandidateReaches) =>
          /\ sheet' = sheet
          /\ log' = log \o << <<idx, "No matching product found">>,
                              <<idx, "No stock data found">> >>
          /\ ~\E k \in 1..Len(log') : log'[k] = <<idx, "Updated sheet">>
          /\ idx' = idx + 1
          /\ pc' = IF idx < Len(products) THEN "entry" ELSE "finally"]_vars

\* C7 witness: the first entry, with stock 5, met a page with a product below
\* the threshold; its row still holds 5 and no supplier stock, and the run is
\* at the second entry.
C7_Witness ==
    /\ pc = "entry"
    /\ idx = 2
    /\ log = << <<1, "No matching product found">>, <<1, "No stock data found">> >>
    /\ sheet[2].on_hand = "5"
    /\ sheet[2].acdc_stock = ""

\* C8 as stated: a run whose read of the catalog failed reports the failure to
\* its caller.
C8_FetchFatal ==
    (pc = "exit" /\ Logged(0, "Failed to get products")) => result = "raised"

\* C9 as stated: an entry whose upsert failed is recorded as failed and never
\* as updated.
C9_WriteFailure ==
    \A entry \in 1..Len(products) :
        Logged(entry, "Failed to update stock levels") => ~Logged(entry, "Updated sheet")

\* ------------------------------------------- aggregation and discrepancy

\* The entry's step writes the row of an upsert of total for the entry, or
\* leaves the sheet as a failed upsert does.
Upserts(total) ==
    \E env \in RunEnvs :
        sheet' = update_stock_levels(
                     sheet, locals.sku,
                     ShopifyData(products[idx], locals.title, locals.current_stock),
                     total, env).sheet

\* C11 as stated: an entry with last known stock 5 whose listing gives 3 for
\* one branch and an unparseable text for the other is upserted with the total
\* 3, and is not recorded as failed.
C11_PartialReadings ==
    [][(/\ pc = "write"
        /\ pc' # "write"
        /\ locals.current_stock = "5"
        /\ locals.acdc_stock = [edenvale |-> "3", germiston |-> "x"]) =>
          /\ pc' # "except"
          /\ Upserts(3)
          /\ \E k \in 1..Len(log') : log'[k] = <<idx, "Updated sheet">>]_vars

\* C13 as stated: an entry whose listing gives no quantity for any branch is
\* upserted with the total 0 and is not recorded as failed.
C13_FullyAbsent ==
    [][(/\ pc = "write"
        /\ pc' # "write"
        /\ locals.acdc_stock = [edenvale |-> None, germiston |-> None]) =>
          /\ pc' # "except"
          /\ Upserts(0)]_vars

\* ------------------------------------------------------ upsert: the flags

\* The rows of after that a call has added to before or changed in it.
WrittenRows(before, after) ==
    { i \in 1..Len(after) : i > Len(before) \/ after[i] # before[i] }

\* The last known stock of the call is unknown: missing, or no number.
UnknownStock ==
    \/ "on_hand" \notin DOMAIN u.shopify_data
    \/ ~IsInt(u.shopify_data.on_hand)

\* C12 as stated: a call that the sheet service serves succeeds, and the row it
\* writes has the discrepancy flag set exactly when the last known stock is
\* unknown or differs from the total.
C12_Discrepancy ==
    (u.calls >= 1 /\ u.env[1].get_ok /\ u.env[1].write_ok) =>
        /\ u.ok[1]
        /\ \A i \in WrittenRows(u.before, u.first) :
              u.first[i].stock_difference = "Yes"
                  <=> (UnknownStock \/ Int_(u.shopify_data.on_hand) # u.acdc_stock)

\* C15: in every row that update_stock_levels has appended or updated, the
\* action required is non-empty exactly when the discrepancy flag is "Yes" and
\* is the empty text exactly when the flag is "No".
C15_ActionRequired ==
    \A i \in WrittenRows(u.before, sheet) :
        /\ sheet[i].action_required # "" <=> sheet[i].stock_difference = "Yes"
        /\ sheet[i].action_required = "" <=> sheet[i].stock_difference = "No"

\* C15 witness: two calls for a SKU that the sheet did not hold: the first
\* appended a row and the second updated it; the stock differs from the total
\* and the row asks for a check.
C15_Witness ==
    /\ u.calls = 2
    /\ u.ok = <<TRUE, TRUE>>
    /\ Len(u.first) = Len(u.before) + 1
    /\ Len(sheet) = Len(u.first)
    /\ sheet[Len(sheet)] # u.first[Len(sheet)]
    /\ sheet[Len(sheet)].stock_difference = "Yes"
    /\ sheet[Len(sheet)].action_required = "Check stock levels"

\* C18: a call of update_stock_levels that returns False leaves the sheet as
\* it was: no row more, no cell changed.
C18_FailedUpsert ==
    [][(u'.calls = u.calls + 1 /\ ~u'.ok[u'.calls]) => sheet' = sheet]_vars

\* C18 witness: the sheet service served the call for a SKU of the sheet, the
\* call returned False on a last known stock that is no number, and the sheet
\* is the one before the call.
C18_Witness ==
    /\ u.calls = 1
    /\ u.ok = <<FALSE>>
    /\ u.env[1].get_ok
    /\ u.env[1].write_ok
    /\ FindRow(SkuColumn(u.before), u.sku) # 0
    /\ u.shopify_data.on_hand = "x"
    /\ sheet = u.before

\* ------------------------------------------------- the entries of a run

\* The outcomes of an entry, as the run has logged them.
Unmatched(entry) == Logged(entry, "No matching product found")
Upserted(entry) == Logged(entry, "Updated sheet")
Failed(entry) ==
    \/ Logged(entry, "Error processing product")
    \/ Logged(entry, "Error getting stock levels")
    \/ Logged(entry, "Failed to update stock levels")
    \/ Logged(entry, "Sync failed")

\* C14 as stated: when a run that has read the catalog ends, every entry of
\* the catalog has exactly one outcome among unmatched, upserted and failed,
\* and was upserted at most once.
C14_StateMachine ==
    (pc = "exit" /\ scraper # "none" /\ ~Logged(0, "Failed to get products")) =>
        \A entry \in 1..Len(products) :
            /\ \/ Unmatched(entry) /\ ~Upserted(entry) /\ ~Failed(entry)
               \/ ~Unmatched(entry) /\ Upserted(entry) /\ ~Failed(entry)
               \/ ~Unmatched(entry) /\ ~Upserted(entry) /\ Failed(entry)
            /\ Cardinality({k \in 1..Len(log) : log[k] = <<entry, "Updated sheet">>}) <= 1

\* C16 as stated: find_matching_product returns None when the page shows no
\* product, whatever the title, and when the title is empty, whatever the page
\* shows, products with an empty title included.
C16_EmptyInputs ==
    (m.pc = "done" /\ (m.products = <<>> \/ m.search_title = <<>>)) =>
        m.best_match = 0

\* C17 as stated: no step of a run adds a row to the sheet.
C17_NoNewRows ==
    [][running => Len(sheet') = Len(sheet)]_vars

\* C19: a scraper that sync_stock has built is closed in the step in which
\* sync_stock returns or raises, and only there: it is never open once
\* sync_stock is left, it is closed from open only, and it is not closed
\* again.
C19_ScraperClosed ==
    /\ [](pc \in {"exit", "idle"} => scraper # "open")
    /\ [][(scraper = "open" /\ scraper' # "open") =>
            /\ scraper' = "closed"
            /\ pc \in {"finally", "finally_raise"}
            /\ pc' = "exit"]_vars
    /\ [][(scraper # "open" /\ scraper' = "closed") => scraper = "closed"]_vars
    /\ [][(pc \in {"finally", "finally_raise"} /\ pc' # pc /\ scraper = "open") =>
            scraper' = "closed"]_vars

\* C19 witness: a run that had built its scraper raised out of the loop of the
\* entries, and the scraper is closed.
C19_Witness ==
    /\ pc = "exit"
    /\ result = "raised"
    /\ Logged(1, "Sync failed")
    /\ Len(products) > 0
    /\ scraper = "closed"

====
